---- MODULE Spec2Model ----
(***************************************************************************)
(* Model of selene/new/condition.py: the condition factories for elements, *)
(* collections and the browser, evaluated against a small page state.      *)
(*                                                                         *)
(* A Python string is a sequence of fragments (TLA+ strings): a literal of *)
(* the source is one fragment, a text of the page is a sequence of one-    *)
(* character fragments.  String concatenation is \o.                       *)
(***************************************************************************)
EXTENDS Integers, Sequences, FiniteSets, TLC

VARIABLES element, collection, browser, last, repeat

vars == <<element, collection, browser, last, repeat>>

(***************************************************************************)
(* Bounds of the page state and of the arguments.                          *)
(***************************************************************************)
MaxTextLen == 2
MaxSize == 2
MaxArgs == 2
MaxCounter == 2

Chars == {"a", "b"}

StrUpTo(n) == UNION {[1..k -> Chars] : k \in 0..n}

\* texts and attribute values of an element
Str == StrUpTo(MaxTextLen)

\* Python's None, which is no string
None == <<"None">>

SeqUpTo(S, n) == UNION {[1..k -> S] : k \in 0..n}

(***************************************************************************)
(* selene.common.predicate: a predicate is (expected) -> (actual) -> bool. *)
(* A predicate value is the record of its constructor's name and expected. *)
(***************************************************************************)
\* constructor(expected), constructor the name of a predicate constructor
Predicate(constructor, expected) == [name |-> constructor, expected |-> expected]

equals(expected) == Predicate("equals", expected)

includes(expected) == Predicate("includes", expected)

is_truthy == Predicate("is_truthy", None)

is_greater_than(expected) == Predicate("is_greater_than", expected)

is_greater_than_or_equal(expected) == Predicate("is_greater_than_or_equal", expected)

is_less_than(expected) == Predicate("is_less_than", expected)

is_less_than_or_equal(expected) == Predicate("is_less_than_or_equal", expected)

equals_to_list(expected) == Predicate("equals_to_list", expected)

equals_by_contains_to_list(expected) == Predicate("equals_by_contains_to_list", expected)

\* actual contains expected as a contiguous run; None contains nothing
Contains(actual, expected) ==
    /\ actual # None
    /\ expected # None
    /\ \E i \in 0..(Len(actual) - Len(expected)) :
          SubSeq(actual, i + 1, i + Len(expected)) = expected

\* Python truthiness of a string or None
Truthy(actual) == actual # None /\ actual # <<>>

\* the predicate applied to the actual value
Matches(p, actual) ==
    CASE p.name = "equals" -> actual = p.expected
      [] p.name = "includes" -> Contains(actual, p.expected)
      [] p.name = "is_truthy" -> Truthy(actual)
      [] p.name = "is_greater_than" -> actual > p.expected
      [] p.name = "is_greater_than_or_equal" -> actual >= p.expected
      [] p.name = "is_less_than" -> actual < p.expected
      [] p.name = "is_less_than_or_equal" -> actual <= p.expected
      [] p.name = "equals_to_list" ->
            /\ Len(actual) = Len(p.expected)
            /\ \A i \in 1..Len(actual) : actual[i] = p.expected[i]
      [] p.name = "equals_by_contains_to_list" ->
            /\ Len(actual) = Len(p.expected)
            /\ \A i \in 1..Len(actual) : Contains(actual[i], p.expected[i])

(***************************************************************************)
(* The driver layer, seen through the calls the conditions make.  An       *)
(* access returns a value or raises; it records the driver calls it made   *)
(* and the subject as the access leaves it.                                *)
(***************************************************************************)
DriverCall(op, arg) == [op |-> op, arg |-> arg]

Returned(value, calls, after) ==
    [raised |-> FALSE, value |-> value, calls |-> calls, after |-> after]

Raised(error, calls, after) ==
    [raised |-> TRUE, value |-> error, calls |-> calls, after |-> after]

NoSuchElement == <<"NoSuchElementException">>

JavascriptError == <<"JavascriptException">>

\* WebElement.get_attribute: the attribute's value, None when it is absent
get_attribute(webelement, name) ==
    IF name = <<"value">> THEN webelement.value ELSE None

\* the scripts a test passes to execute_script
Scripts == {"return window.n", "return ++window.n", "throw 'error'"}

(***************************************************************************)
(* The accessors of condition.py.  element() locates the element and       *)
(* raises when the page does not hold it.                                  *)
(***************************************************************************)
\* lambda element: element().is_displayed()
is_displayed(e) ==
    IF ~e.found
    THEN Raised(NoSuchElement, <<DriverCall("locate", <<>>)>>, e)
    ELSE Returned(e.displayed,
                  <<DriverCall("locate", <<>>), DriverCall("is_displayed", <<>>)>>, e)

\* lambda element: element().is_enabled()
is_enabled(e) ==
    IF ~e.found
    THEN Raised(NoSuchElement, <<DriverCall("locate", <<>>)>>, e)
    ELSE Returned(e.enabled,
                  <<DriverCall("locate", <<>>), DriverCall("is_enabled", <<>>)>>, e)

\* lambda element: element() is not None
is_not_None(e) ==
    IF ~e.found
    THEN Raised(NoSuchElement, <<DriverCall("locate", <<>>)>>, e)
    ELSE Returned(TRUE, <<DriverCall("locate", <<>>)>>, e)

\* the text, None when it is empty
text_or_None(e) ==
    IF ~e.found
    THEN Raised(NoSuchElement, <<DriverCall("locate", <<>>)>>, e)
    ELSE Returned(IF e.text = <<>> THEN None ELSE e.text,
                  <<DriverCall("locate", <<>>), DriverCall("text", <<>>)>>, e)

\* def text(element): return element().text
text(e) ==
    IF ~e.found
    THEN Raised(NoSuchElement, <<DriverCall("locate", <<>>)>>, e)
    ELSE Returned(e.text, <<DriverCall("locate", <<>>), DriverCall("text", <<>>)>>, e)

\* def attribute_value(element): return element().get_attribute(name)
attribute_value(name, e) ==
    IF ~e.found
    THEN Raised(NoSuchElement, <<DriverCall("locate", <<>>)>>, e)
    ELSE Returned(get_attribute(e, name),
                  <<DriverCall("locate", <<>>), DriverCall("get_attribute", name)>>, e)

\* def size(collection): return len(collection())
size(c) == Returned(Len(c), <<DriverCall("locate_all", <<>>)>>, c)

\* the texts of the displayed elements of a list of webelements, in order
RECURSIVE DisplayedTexts(_)
DisplayedTexts(ws) ==
    IF ws = <<>> THEN <<>>
    ELSE (IF Head(ws).displayed THEN <<Head(ws).text>> ELSE <<>>)
         \o DisplayedTexts(Tail(ws))

\* def visible_texts(collection):
\*     return [webelement.text for webelement in collection() if webelement.is_displayed()]
visible_texts(c) == Returned(DisplayedTexts(c), <<DriverCall("locate_all", <<>>)>>, c)

\* WebDriver.execute_script(script): what the script returns or raises, and
\* the page as the script leaves it
execute_script(b, script) ==
    CASE script = "return window.n" ->
            Returned(b.n, <<DriverCall("execute_script", <<script>>)>>, b)
      [] script = "return ++window.n" ->
            Returned((b.n + 1) % (MaxCounter + 1),
                     <<DriverCall("execute_script", <<script>>)>>,
                     [b EXCEPT !.n = (b.n + 1) % (MaxCounter + 1)])
      [] script = "throw 'error'" ->
            Raised(JavascriptError, <<DriverCall("execute_script", <<script>>)>>, b)

\* the script run once more when it raised
script_result_retried(script, b) ==
    LET r1 == execute_script(b, script) IN
    IF r1.raised
    THEN LET r2 == execute_script(r1.after, script) IN
         [r2 EXCEPT !.calls = r1.calls \o r2.calls]
    ELSE r1

\* def script_result(browser): return browser().execute_script(script, *args)
script_result(script, b) == execute_script(b, script)

\* an accessor value: the function's name and what its closure holds
Accessor(name, arg) == [name |-> name, arg |-> arg]

\* accessor(subject)
Access(q, s) ==
    CASE q.name = "is_displayed" -> is_displayed(s)
      [] q.name = "is_enabled" -> is_enabled(s)
      [] q.name = "is_not_None" -> is_not_None(s)
      [] q.name = "text" -> text(s)
      [] q.name = "attribute_value" -> attribute_value(q.arg, s)
      [] q.name = "size" -> size(s)
      [] q.name = "visible_texts" -> visible_texts(s)
      [] q.name = "script_result" -> script_result(q.arg, s)

(***************************************************************************)
(* selene.wait.Condition: a description and a check of a subject.          *)
(***************************************************************************)
Success(calls, after) ==
    [ok |-> TRUE, kind |-> "Success", description |-> <<>>, detail |-> <<>>,
     calls |-> calls, after |-> after]

Failure(kind, description, detail, calls, after) ==
    [ok |-> FALSE, kind |-> kind, description |-> description, detail |-> detail,
     calls |-> calls, after |-> after]

\* Condition.raise_if_not(description, predicate)
raise_if_not(description, predicate) ==
    [type |-> "raise_if_not", description |-> description, predicate |-> predicate]

\* Condition.raise_if_not_actual(description, query, predicate)
raise_if_not_actual(description, query, predicate) ==
    [type |-> "raise_if_not_actual", description |-> description,
     query |-> query, predicate |-> predicate]

\* Condition.as_not(condition, description=None)
as_not(condition, description) ==
    [type |-> "as_not",
     description |-> IF description = None
                     THEN <<"not ">> \o condition.description
                     ELSE description,
     condition |-> condition]

\* condition.and_(other)
and_(self, other) ==
    [type |-> "and_",
     description |-> self.description \o <<" and ">> \o other.description,
     first |-> self, second |-> other]

\* str(condition)
str(condition) == condition.description

\* condition.call(subject): one evaluation
RECURSIVE call(_, _)
call(c, s) ==
    CASE c.type = "raise_if_not" ->
            LET r == Access(c.predicate, s) IN
            IF r.raised
            THEN Failure("AccessFailure", c.description, r.value, r.calls, r.after)
            ELSE IF r.value
                 THEN Success(r.calls, r.after)
                 ELSE Failure("PredicateMismatch", c.description, <<"subject">>,
                              r.calls, r.after)
      [] c.type = "raise_if_not_actual" ->
            LET r == Access(c.query, s) IN
            IF r.raised
            THEN Failure("AccessFailure", c.description, r.value, r.calls, r.after)
            ELSE IF Matches(c.predicate, r.value)
                 THEN Success(r.calls, r.after)
                 ELSE Failure("PredicateMismatch", c.description, r.value,
                              r.calls, r.after)
      [] c.type = "as_not" ->
            LET r == call(c.condition, s) IN
            IF r.ok
            THEN Failure("PredicateMismatch", c.description, <<"subject">>,
                         r.calls, r.after)
            ELSE Success(r.calls, r.after)
      [] c.type = "and_" ->
            LET l == call(c.first, s) IN
            IF ~l.ok
            THEN l
            ELSE LET r == call(c.second, l.after) IN
                 [r EXCEPT !.calls = l.calls \o r.calls]

(***************************************************************************)
(* The condition factories of condition.py.                                *)
(***************************************************************************)
element_is_visible == raise_if_not(<<"is visible">>, Accessor("is_displayed", <<>>))

\* the negation left out
element_is_hidden_not_negated == [element_is_visible EXCEPT !.description = <<"is hidden">>]

element_is_hidden == as_not(element_is_visible, <<"is hidden">>)

element_is_enabled == raise_if_not(<<"is enabled">>, Accessor("is_enabled", <<>>))

\* the negation of the wrong condition
element_is_disabled_of_visible == as_not(element_is_visible, None)

element_is_disabled == as_not(element_is_enabled, None)

element_is_present == raise_if_not(<<"is visible">>, Accessor("is_not_None", <<>>))

element_is_absent == as_not(element_is_present, None)

\* element_has_text(expected, describing_matched_to, compared_by_predicate_to),
\* compared_by_predicate_to the name of the predicate constructor
element_has_text_by(expected, describing_matched_to, compared_by_predicate_to) ==
    raise_if_not_actual(describing_matched_to \o <<" ">> \o expected,
                        Accessor("text", <<>>),
                        Predicate(compared_by_predicate_to, expected))

\* compared by equality
element_has_text_by_equals(expected) ==
    element_has_text_by(expected, <<"has text">>, "equals")

\* element_has_text(expected), the other two parameters at their defaults
element_has_text(expected) == element_has_text_by(expected, <<"has text">>, "includes")

\* compared by containment
element_has_exact_text_by_includes(expected) ==
    element_has_text_by(expected, <<"has exact text">>, "includes")

element_has_exact_text(expected) ==
    element_has_text_by(expected, <<"has exact text">>, "equals")

\* the condition of has_attribute(name); it keeps name for its methods
element_has_attribute(name) ==
    ("name" :> name) @@
    raise_if_not_actual(<<"has attribute ">> \o name,
                        Accessor("attribute_value", name),
                        is_truthy)

\* ConditionWithValues.value(expected)
value(self, expected) ==
    raise_if_not_actual(<<"has attribute '">> \o self.name \o <<"' with value '">>
                            \o expected \o <<"'">>,
                        Accessor("attribute_value", self.name),
                        equals(expected))

\* ConditionWithValues.value_containing(expected)
value_containing(self, expected) ==
    raise_if_not_actual(<<"has attribute '">> \o self.name
                            \o <<"' with value containing '">> \o expected \o <<"'">>,
                        Accessor("attribute_value", self.name),
                        includes(expected))

\* the method value_containing in the place of value
element_has_value_by_containing(expected) ==
    value_containing(element_has_attribute(<<"value">>), expected)

element_has_value(expected) == value(element_has_attribute(<<"value">>), expected)

element_has_value_containing(expected) ==
    value_containing(element_has_attribute(<<"value">>), expected)

\* the value checked before the text
element_is_blank_value_first ==
    and_(element_has_value(<<>>), element_has_exact_text(<<>>))

element_is_blank == and_(element_has_exact_text(<<>>), element_has_value(<<>>))

\* collection_has_size(expected, describing_matched_to, compared_by_predicate_to),
\* compared_by_predicate_to the name of the predicate constructor
collection_has_size_by(expected, describing_matched_to, compared_by_predicate_to) ==
    raise_if_not_actual(describing_matched_to \o <<" ", ToString(expected)>>,
                        Accessor("size", <<>>),
                        Predicate(compared_by_predicate_to, expected))

\* collection_has_size(expected), the other two parameters at their defaults
collection_has_size(expected) == collection_has_size_by(expected, <<"has size">>, "equals")

\* compared by greater than or equal
collection_has_size_greater_than_by_or_equal(expected) ==
    collection_has_size_by(expected, <<"has size greater than">>,
                           "is_greater_than_or_equal")

collection_has_size_greater_than(expected) ==
    collection_has_size_by(expected, <<"has size greater than">>, "is_greater_than")

collection_has_size_greater_than_or_equal(expected) ==
    collection_has_size_by(expected, <<"has size greater than or equal">>,
                           "is_greater_than_or_equal")

collection_has_size_less_than(expected) ==
    collection_has_size_by(expected, <<"has size less than">>, "is_less_than")

collection_has_size_less_than_or_equal(expected) ==
    collection_has_size_by(expected, <<"has size less than or equal">>,
                           "is_less_than_or_equal")

\* the string form of a tuple of strings, as an f-string renders it
RECURSIVE repr_items(_)
repr_items(t) ==
    IF t = <<>> THEN <<>>
    ELSE <<"'">> \o Head(t) \o <<"'">>
         \o (IF Tail(t) = <<>> THEN <<>> ELSE <<", ">> \o repr_items(Tail(t)))

repr_tuple(t) ==
    <<"(">> \o repr_items(t) \o (IF Len(t) = 1 THEN <<",">> ELSE <<>>) \o <<")">>

\* def collection_has_texts(self, *expected): args are the caller's
\* positional arguments, at least one; the first binds to self, the rest to
\* expected
collection_has_texts(args) ==
    LET self == Head(args)
        expected == Tail(args)
    IN raise_if_not_actual(<<"has texts ">> \o repr_tuple(expected),
                           Accessor("visible_texts", <<>>),
                           equals_by_contains_to_list(expected))

\* def collection_has_exact_texts(self, *expected)
collection_has_exact_texts(args) ==
    LET self == Head(args)
        expected == Tail(args)
    IN raise_if_not_actual(<<"has exact texts ">> \o repr_tuple(expected),
                           Accessor("visible_texts", <<>>),
                           equals_to_list(expected))

\* browser_has_js_returned(expected, script), with no arguments for the script
browser_has_js_returned(expected, script) ==
    raise_if_not_actual(<<"has the ", "<3 backticks>", script, "<3 backticks>", " script returned ",
                          ToString(expected)>>,
                        Accessor("script_result", script),
                        equals(expected))

(***************************************************************************)
(* The state: the page as the driver sees it, and what the test observed.  *)
(*   element     the element a test holds                                  *)
(*   collection  the webelements of the collection a test holds            *)
(*   browser     the session; n is window.n of the page                    *)
(*   last        the latest evaluation of a condition, Idle when the page  *)
(*               changed since                                             *)
(*   repeat      set when the latest evaluation repeated the one before    *)
(***************************************************************************)
Idle == [fn |-> "idle"]

NoRepeat == [again |-> FALSE]

\* the texts the elements of the collection show
Words == {<<>>, <<"a">>, <<"a", "b">>}

WebElements == [displayed : BOOLEAN, text : Words]

\* the record of evaluating condition c, built by fn(args), on subject s
Evaluated(fn, args, c, s) ==
    [fn |-> fn, args |-> args, condition |-> c, subject |-> s,
     result |-> call(c, s)]

\* the rest of a step that evaluated a condition on the element
ElementEvaluated ==
    /\ element' = last'.result.after
    /\ repeat' = NoRepeat
    /\ UNCHANGED <<collection, browser>>

\* the rest of a step that evaluated a condition on the collection
CollectionEvaluated ==
    /\ collection' = last'.result.after
    /\ repeat' = NoRepeat
    /\ UNCHANGED <<element, browser>>

\* the rest of a step that evaluated a condition on the browser
BrowserEvaluated ==
    /\ browser' = last'.result.after
    /\ repeat' = NoRepeat
    /\ UNCHANGED <<element, collection>>

(***************************************************************************)
(* The page changes under the test.                                        *)
(***************************************************************************)
PageChanged == last' = Idle /\ repeat' = NoRepeat

ElementDetachedOrAttached ==
    /\ element' = [element EXCEPT !.found = ~element.found]
    /\ PageChanged
    /\ UNCHANGED <<collection, browser>>

ElementShownOrHidden ==
    /\ element' = [element EXCEPT !.displayed = ~element.displayed]
    /\ PageChanged
    /\ UNCHANGED <<collection, browser>>

ElementEnabledOrDisabled ==
    /\ element' = [element EXCEPT !.enabled = ~element.enabled]
    /\ PageChanged
    /\ UNCHANGED <<collection, browser>>

ElementTextChanged ==
    /\ \E t \in Str \ {element.text} : element' = [element EXCEPT !.text = t]
    /\ PageChanged
    /\ UNCHANGED <<collection, browser>>

ElementValueChanged ==
    /\ \E v \in (Str \cup {None}) \ {element.value} :
          element' = [element EXCEPT !.value = v]
    /\ PageChanged
    /\ UNCHANGED <<collection, browser>>

CollectionElementAdded ==
    /\ Len(collection) < MaxSize
    /\ \E w \in WebElements : collection' = Append(collection, w)
    /\ PageChanged
    /\ UNCHANGED <<element, browser>>

CollectionElementRemoved ==
    /\ collection # <<>>
    /\ collection' = SubSeq(collection, 1, Len(collection) - 1)
    /\ PageChanged
    /\ UNCHANGED <<element, browser>>

WindowCounterChanged ==
    /\ \E n \in (0..MaxCounter) \ {browser.n} : browser' = [browser EXCEPT !.n = n]
    /\ PageChanged
    /\ UNCHANGED <<element, collection>>

(***************************************************************************)
(* The evaluations of the conditions on the element's state flags.         *)
(***************************************************************************)
ShouldBeVisible ==
    /\ last' = Evaluated("element_is_visible", <<>>, element_is_visible, element)
    /\ ElementEvaluated

ShouldBeHidden ==
    /\ last' = Evaluated("element_is_hidden", <<>>, element_is_hidden, element)
    /\ ElementEvaluated

ShouldBeEnabled ==
    /\ last' = Evaluated("element_is_enabled", <<>>, element_is_enabled, element)
    /\ ElementEvaluated

ShouldBeDisabled ==
    /\ last' = Evaluated("element_is_disabled", <<>>, element_is_disabled, element)
    /\ ElementEvaluated

ShouldBePresent ==
    /\ last' = Evaluated("element_is_present", <<>>, element_is_present, element)
    /\ ElementEvaluated

ShouldBeAbsent ==
    /\ last' = Evaluated("element_is_absent", <<>>, element_is_absent, element)
    /\ ElementEvaluated

\* the descriptions a test gives to Condition.as_not
Descriptions == {None, <<"is not so">>}

FlagConditionNames ==
    {"element_is_visible", "element_is_hidden", "element_is_enabled",
     "element_is_disabled", "element_is_present", "element_is_absent"}

\* the module attribute of that name
FlagCondition(fn) ==
    CASE fn = "element_is_visible" -> element_is_visible
      [] fn = "element_is_hidden" -> element_is_hidden
      [] fn = "element_is_enabled" -> element_is_enabled
      [] fn = "element_is_disabled" -> element_is_disabled
      [] fn = "element_is_present" -> element_is_present
      [] fn = "element_is_absent" -> element_is_absent

\* Condition.as_not(c, d) of one of the conditions above
ShouldNot ==
    \E fn \in FlagConditionNames, d \in Descriptions :
       /\ last' = Evaluated("as_not", <<fn>>, as_not(FlagCondition(fn), d), element)
       /\ ElementEvaluated

\* Condition.as_not(Condition.as_not(c, d1), d2) of one of the conditions above
ShouldNotNot ==
    \E fn \in FlagConditionNames, d1 \in Descriptions, d2 \in Descriptions :
       /\ last' = Evaluated("as_not(as_not)", <<fn>>,
                            as_not(as_not(FlagCondition(fn), d1), d2), element)
       /\ ElementEvaluated

FlagsInit ==
    /\ element \in [found : BOOLEAN, displayed : BOOLEAN, enabled : BOOLEAN,
                    text : {<<>>}, value : {None}]
    /\ collection = <<>>
    /\ browser = [n |-> 0]
    /\ last = Idle
    /\ repeat = NoRepeat

FlagsNext ==
    \/ ElementDetachedOrAttached
    \/ ElementShownOrHidden
    \/ ElementEnabledOrDisabled
    \/ ShouldBeVisible
    \/ ShouldBeHidden
    \/ ShouldBeEnabled
    \/ ShouldBeDisabled
    \/ ShouldBePresent
    \/ ShouldBeAbsent
    \/ ShouldNot
    \/ ShouldNotNot

SpecFlags == FlagsInit /\ [][FlagsNext]_vars

(***************************************************************************)
(* The evaluations of the conditions on the element's text and value.      *)
(***************************************************************************)
ShouldHaveText ==
    \E expected \in Str :
       /\ last' = Evaluated("element_has_text", <<expected>>,
                            element_has_text(expected), element)
       /\ ElementEvaluated

ShouldHaveExactText ==
    \E expected \in Str :
       /\ last' = Evaluated("element_has_exact_text", <<expected>>,
                            element_has_exact_text(expected), element)
       /\ ElementEvaluated

\* the attribute names a test asks for
AttributeNames == {<<"value">>, <<"class">>}

ShouldHaveAttribute ==
    \E name \in AttributeNames :
       /\ last' = Evaluated("element_has_attribute", <<name>>,
                            element_has_attribute(name), element)
       /\ ElementEvaluated

ShouldHaveValue ==
    \E expected \in Str :
       /\ last' = Evaluated("element_has_value", <<expected>>,
                            element_has_value(expected), element)
       /\ ElementEvaluated

ShouldHaveValueContaining ==
    \E expected \in Str :
       /\ last' = Evaluated("element_has_value_containing", <<expected>>,
                            element_has_value_containing(expected), element)
       /\ ElementEvaluated

ShouldBeBlank ==
    /\ last' = Evaluated("element_is_blank", <<>>, element_is_blank, element)
    /\ ElementEvaluated

\* the expected strings of the conditions a test joins with and_
Expectations == {<<>>, <<"a">>}

\* a text condition and_ a value condition
ShouldBoth ==
    \E e1 \in Expectations, e2 \in Expectations :
       \E c1 \in {element_has_text(e1), element_has_exact_text(e1)},
          c2 \in {element_has_value(e2), element_has_value_containing(e2)} :
          /\ last' = Evaluated("and_", <<e1, e2>>, and_(c1, c2), element)
          /\ ElementEvaluated

TextInit ==
    /\ element \in [found : BOOLEAN, displayed : {TRUE}, enabled : {TRUE},
                    text : Str, value : Str \cup {None}]
    /\ collection = <<>>
    /\ browser = [n |-> 0]
    /\ last = Idle
    /\ repeat = NoRepeat

TextNext ==
    \/ ElementDetachedOrAttached
    \/ ElementTextChanged
    \/ ElementValueChanged
    \/ ShouldHaveText
    \/ ShouldHaveExactText
    \/ ShouldHaveAttribute
    \/ ShouldHaveValue
    \/ ShouldHaveValueContaining
    \/ ShouldBeBlank
    \/ ShouldBoth

SpecText == TextInit /\ [][TextNext]_vars

(***************************************************************************)
(* The evaluations of the conditions on the collection.                    *)
(***************************************************************************)
\* the sizes a test expects
Sizes == (-1)..(MaxSize + 1)

ShouldHaveSize ==
    \E expected \in Sizes :
       /\ last' = Evaluated("collection_has_size", <<expected>>,
                            collection_has_size(expected), collection)
       /\ CollectionEvaluated

ShouldHaveSizeGreaterThan ==
    \E expected \in Sizes :
       /\ last' = Evaluated("collection_has_size_greater_than", <<expected>>,
                            collection_has_size_greater_than(expected), collection)
       /\ CollectionEvaluated

ShouldHaveSizeGreaterThanOrEqual ==
    \E expected \in Sizes :
       /\ last' = Evaluated("collection_has_size_greater_than_or_equal", <<expected>>,
                            collection_has_size_greater_than_or_equal(expected), collection)
       /\ CollectionEvaluated

ShouldHaveSizeLessThan ==
    \E expected \in Sizes :
       /\ last' = Evaluated("collection_has_size_less_than", <<expected>>,
                            collection_has_size_less_than(expected), collection)
       /\ CollectionEvaluated

ShouldHaveSizeLessThanOrEqual ==
    \E expected \in Sizes :
       /\ last' = Evaluated("collection_has_size_less_than_or_equal", <<expected>>,
                            collection_has_size_less_than_or_equal(expected), collection)
       /\ CollectionEvaluated

\* collection_has_texts(*args), args the texts the test expects; without
\* any the call raises TypeError and gives no condition to evaluate
ShouldHaveTexts ==
    \E args \in SeqUpTo(Words, MaxArgs) \ {<<>>} :
       /\ last' = Evaluated("collection_has_texts", args,
                            collection_has_texts(args), collection)
       /\ CollectionEvaluated

\* collection_has_exact_texts(*args)
ShouldHaveExactTexts ==
    \E args \in SeqUpTo(Words, MaxArgs) \ {<<>>} :
       /\ last' = Evaluated("collection_has_exact_texts", args,
                            collection_has_exact_texts(args), collection)
       /\ CollectionEvaluated

CollectionInit ==
    /\ element = [found |-> FALSE, displayed |-> FALSE, enabled |-> FALSE,
                  text |-> <<>>, value |-> None]
    /\ collection \in SeqUpTo(WebElements, MaxSize)
    /\ browser = [n |-> 0]
    /\ last = Idle
    /\ repeat = NoRepeat

CollectionNext ==
    \/ CollectionElementAdded
    \/ CollectionElementRemoved
    \/ ShouldHaveSize
    \/ ShouldHaveSizeGreaterThan
    \/ ShouldHaveSizeGreaterThanOrEqual
    \/ ShouldHaveSizeLessThan
    \/ ShouldHaveSizeLessThanOrEqual
    \/ ShouldHaveTexts
    \/ ShouldHaveExactTexts

SpecCollection == CollectionInit /\ [][CollectionNext]_vars

(***************************************************************************)
(* The evaluations of the conditions on the browser, and a test that       *)
(* evaluates its latest condition once more.                               *)
(***************************************************************************)
ShouldHaveJsReturned ==
    \E expected \in 0..MaxCounter, script \in Scripts :
       /\ last' = Evaluated("browser_has_js_returned", <<expected, script>>,
                            browser_has_js_returned(expected, script), browser)
       /\ BrowserEvaluated

ShouldAgain ==
    /\ last.fn # "idle"
    /\ IF last.fn = "browser_has_js_returned"
       THEN /\ last' = Evaluated(last.fn, last.args, last.condition, browser)
            /\ repeat' = [again |-> TRUE, unchanged |-> browser = last.subject,
                          ok |-> last.result.ok]
            /\ browser' = last'.result.after
            /\ UNCHANGED <<element, collection>>
       ELSE /\ last' = Evaluated(last.fn, last.args, last.condition, element)
            /\ repeat' = [again |-> TRUE, unchanged |-> element = last.subject,
                          ok |-> last.result.ok]
            /\ element' = last'.result.after
            /\ UNCHANGED <<browser, collection>>

BrowserInit ==
    /\ element \in [found : BOOLEAN, displayed : {TRUE}, enabled : {TRUE},
                    text : Str, value : {None}]
    /\ collection = <<>>
    /\ browser \in [n : 0..MaxCounter]
    /\ last = Idle
    /\ repeat = NoRepeat

BrowserNext ==
    \/ WindowCounterChanged
    \/ ElementDetachedOrAttached
    \/ ElementTextChanged
    \/ ShouldHaveJsReturned
    \/ ShouldHaveText
    \/ ShouldHaveExactText
    \/ ShouldAgain

SpecBrowser == BrowserInit /\ [][BrowserNext]_vars

(***************************************************************************)
(* Negation.                                                               *)
(***************************************************************************)
\* C2: negating a condition twice gives a condition that succeeds on a
\* subject exactly when the condition does, whatever the descriptions and
\* also when the condition fails because its accessor raised; so negating
\* element_is_hidden, element_is_disabled or element_is_absent succeeds
\* exactly when element_is_visible, element_is_enabled or
\* element_is_present does.
C2_DoubleNegation ==
    /\ last.fn = "as_not(as_not)" =>
          last.result.ok = call(FlagCondition(last.args[1]), last.subject).ok
    /\ (last.fn = "as_not" /\ last.args[1] = "element_is_hidden") =>
          last.result.ok = call(element_is_visible, last.subject).ok
    /\ (last.fn = "as_not" /\ last.args[1] = "element_is_disabled") =>
          last.result.ok = call(element_is_enabled, last.subject).ok
    /\ (last.fn = "as_not" /\ last.args[1] = "element_is_absent") =>
          last.result.ok = call(element_is_present, last.subject).ok

\* the element is gone, element_is_visible fails by the raised lookup, and
\* its double negation was evaluated and failed too
C2_Witness ==
    /\ last.fn = "as_not(as_not)"
    /\ last.args[1] = "element_is_visible"
    /\ ~last.subject.found
    /\ call(element_is_visible, last.subject).kind = "AccessFailure"
    /\ ~last.result.ok

\* C3: element_is_hidden succeeds exactly when element_is_visible fails,
\* element_is_disabled exactly when element_is_enabled fails and
\* element_is_absent exactly when element_is_present fails; a lookup that
\* raises is a failure of the wrapped condition, so the negated one succeeds.
C3_NegatedSucceedsIffWrappedFails ==
    /\ last.fn = "element_is_hidden" =>
          /\ last.result.ok <=> ~call(element_is_visible, last.subject).ok
          /\ last.result.ok <=> ~(last.subject.found /\ last.subject.displayed)
    /\ last.fn = "element_is_disabled" =>
          /\ last.result.ok <=> ~call(element_is_enabled, last.subject).ok
          /\ last.result.ok <=> ~(last.subject.found /\ last.subject.enabled)
    /\ last.fn = "element_is_absent" =>
          /\ last.result.ok <=> ~call(element_is_present, last.subject).ok
          /\ last.result.ok <=> ~last.subject.found
    /\ (last.fn \in {"element_is_hidden", "element_is_disabled", "element_is_absent"}
          /\ ~last.subject.found) => last.result.ok

\* element_is_disabled was evaluated on an element that is gone, and succeeded
C3_Witness ==
    /\ last.fn = "element_is_disabled"
    /\ ~last.subject.found
    /\ call(element_is_enabled, last.subject).kind = "AccessFailure"
    /\ last.result.ok

(***************************************************************************)
(* Conjunction, text and value.                                            *)
(***************************************************************************)
\* the driver calls of that operation among calls
CallsOf(op, calls) == {i \in DOMAIN calls : calls[i].op = op}

\* e is a run of consecutive characters of t
IsSubstring(e, t) ==
    \E i \in 0..Len(t), j \in 0..Len(t) : i <= j /\ SubSeq(t, i + 1, j) = e

\* C1: c1.and_(c2) succeeds on a subject exactly when c1 and c2 both succeed
\* on it, and when c1 fails the accessor of c2 is not invoked in that
\* evaluation; element_is_blank on an element whose exact text check fails
\* does not call get_attribute('value').
C1_AndShortCircuits ==
    /\ last.fn = "and_" =>
          LET first == call(last.condition.first, last.subject)
              second == call(last.condition.second, last.subject)
          IN /\ last.result.ok <=> (first.ok /\ second.ok)
             /\ ~first.ok =>
                   /\ CallsOf("get_attribute", last.result.calls) = {}
                   /\ last.result.calls = first.calls
    /\ (last.fn = "element_is_blank"
          /\ ~call(element_has_exact_text(<<>>), last.subject).ok) =>
          /\ ~last.result.ok
          /\ CallsOf("get_attribute", last.result.calls) = {}

\* element_is_blank was evaluated on an element that is on the page and has
\* a text: it failed after reading the text, and read nothing else
C1_Witness ==
    /\ last.fn = "element_is_blank"
    /\ last.subject.found
    /\ last.subject.text # <<>>
    /\ ~last.result.ok
    /\ CallsOf("text", last.result.calls) # {}
    /\ CallsOf("get_attribute", last.result.calls) = {}

\* C4: element_has_value(expected) on an element that is gone, so that the
\* accessor raises, ends as a failure of the condition that carries the
\* description "has attribute 'value' with value '<expected>'" and the
\* access error, not as an exception of another kind.
C4_AccessFailureIsConditionFailure ==
    (last.fn = "element_has_value" /\ ~last.subject.found) =>
       /\ ~last.result.ok
       /\ last.result.kind = "AccessFailure"
       /\ last.result.description =
             <<"has attribute '", "value", "' with value '">>
                \o last.args[1] \o <<"'">>
       /\ last.result.detail = NoSuchElement

\* element_has_value('a') was evaluated on an element that is gone
C4_Witness ==
    /\ last.fn = "element_has_value"
    /\ last.args = <<(<<"a">>)>>
    /\ ~last.subject.found
    /\ last.result.kind = "AccessFailure"

\* C6: element_is_blank succeeds on an element exactly when its text is the
\* empty string and its 'value' attribute is the empty string.
C6_BlankIffTextAndValueEmpty ==
    last.fn = "element_is_blank" =>
       (last.result.ok <=>
           /\ last.subject.found
           /\ last.subject.text = <<>>
           /\ last.subject.value = <<>>)

\* element_is_blank succeeded on an element with empty text and value
C6_Witness ==
    /\ last.fn = "element_is_blank"
    /\ last.subject.found
    /\ last.subject.text = <<>>
    /\ last.subject.value = <<>>
    /\ last.result.ok

\* C8: on an element whose text is t, element_has_text(e) succeeds exactly
\* when e is a substring of t and element_has_exact_text(e) exactly when
\* t = e.
C8_TextSubstringOrExact ==
    /\ (last.fn = "element_has_text" /\ last.subject.found) =>
          (last.result.ok <=> IsSubstring(last.args[1], last.subject.text))
    /\ (last.fn = "element_has_exact_text" /\ last.subject.found) =>
          (last.result.ok <=> last.subject.text = last.args[1])

\* element_has_text('a') succeeded on an element whose text is 'ab'
C8_Witness ==
    /\ last.fn = "element_has_text"
    /\ last.args = <<(<<"a">>)>>
    /\ last.subject.found
    /\ last.subject.text = <<"a", "b">>
    /\ last.result.ok
    /\ ~call(element_has_exact_text(<<"a">>), last.subject).ok

C5_TextsOfDisplayedElements ==
    /\ last.fn = "collection_has_exact_texts" =>
          LET actual == DisplayedTexts(last.subject) IN
          last.result.ok <=>
             /\ Len(actual) = Len(last.args)
             /\ \A i \in 1..Len(actual) : actual[i] = last.args[i]
    /\ last.fn = "collection_has_texts" =>
          LET actual == DisplayedTexts(last.subject) IN
          last.result.ok <=>
             /\ Len(actual) = Len(last.args)
             /\ \A i \in 1..Len(actual) : IsSubstring(last.args[i], actual[i])

\* C7: on a collection of k elements collection_has_size(n) succeeds
\* exactly when k = n and collection_has_size_greater_than(n) exactly when
\* k > n.
C7_SizeEqualOrGreater ==
    /\ last.fn = "collection_has_size" =>
          (last.result.ok <=> Len(last.subject) = last.args[1])
    /\ last.fn = "collection_has_size_greater_than" =>
          (last.result.ok <=> Len(last.subject) > last.args[1])

\* collection_has_size_greater_than(n) failed on a collection of n elements,
\* the largest the page holds
C7_Witness ==
    /\ last.fn = "collection_has_size_greater_than"
    /\ last.args[1] = MaxSize
    /\ Len(last.subject) = MaxSize
    /\ ~last.result.ok

(***************************************************************************)
(* One evaluation is one attempt.                                          *)
(***************************************************************************)
\* what the script returns on a page whose window.n is n
ScriptValue(script, n) ==
    IF script = "return window.n" THEN n ELSE (n + 1) % (MaxCounter + 1)

====
